---- MODULE Spec2Model ----
(***************************************************************************)
(* Ticket lifecycle of the k1LL bot (src/main.py): the persistent panel    *)
(* view with its "open"/"close" buttons, the per-ticket inline close       *)
(* control, the /ticketclose command, ticket_close_logic, and the parts of *)
(* /setup and /ticketpanel they depend on.                                 *)
(*                                                                         *)
(* Scheduling: discord.py runs every handler as a coroutine on one event   *)
(* loop.  A handler runs without interruption from one awaited network     *)
(* call to the next, so every action below is one such stretch of code:    *)
(* it starts when an awaited call returns and ends where the next one is   *)
(* issued.  sqlite3 calls and get_cfg never yield to the loop.             *)
(***************************************************************************)
EXTENDS Integers, Sequences, FiniteSets, Bags, TLC

(* ------------------------------ bounds -------------------------------- *)
\* events from outside in one behaviour: handler invocations (button presses
\* and commands) and out-of-band events (deletions, permission edits, restarts)
MaxEvents == 3

(* ---------------------------- the world ------------------------------- *)
Guilds == {1, 2}
Users == {1, 2, 3}

\* guild 1 has three members, guild 2 only user 1
Members(g) == IF g = 1 THEN {1, 2, 3} ELSE {1}

\* guild.me, the bot's own identity (author id of the bot's messages)
Me == 4
\* Python None / SQL NULL / "no such object"
None == 0

\* member.guild_permissions: user 2 holds Manage Server only, user 3
\* Manage Channels only, user 1 neither.
manage_guild(u) == u = 2
manage_channels(u) == u = 3

\* every guild starts with one text channel whose id is the guild's number
LobbyOf(g) == g
FirstId == Cardinality(Guilds) + 1
\* the id of the category "TICKETS" that /setup creates in guild g
CategoryOf(g) == 10 + g

BotPerms == {"manage_channels", "manage_roles"}

\* characters of message contents: a letter and the line feed
LF == "\n"
SP == " "

VARIABLES
    tickets,       \* table tickets, in rowid order
    guild_config,  \* table guild_config: guild_id -> ticket_category_id (None: no row)
    guild_channels,\* the platform's channels and categories: [id, guild, type]
    next_id,       \* next snowflake id the platform hands out
    me_perms,      \* guild -> guild.me.guild_permissions (the two the code reads)
    history,       \* channel id -> messages sent to it, oldest first
    inline_view,   \* [ch, author]: the per-ticket close controls that were posted
    utcnow,        \* datetime.utcnow(), a logical clock
    env_used,      \* out-of-band events so far
    overwrites,    \* channel id -> the permission overwrites set on the channel
    tasks,         \* bag of the handler invocations in flight: position and locals
    responses,     \* bag of the invocations that ended: what the invoker was told
    economy,       \* table economy: <<guild_id, user_id>> -> [balance, last_daily, inv_json]
    credited,      \* bag of the daily rewards credited: who, and the two clock readings
    reply          \* the economy command answered last, and what it was told

\* the economy: the table, the credits given so far, the answer last sent
econ == <<economy, credited, reply>>

vars == <<tickets, guild_config, guild_channels, next_id, me_perms, history,
          inline_view, utcnow, env_used, overwrites, tasks, responses, econ>>

(* ---------------------------- helpers --------------------------------- *)
\* every created channel takes one open_ticket invocation
ChannelIds == 1..(FirstId + MaxEvents - 1)

\* faulty variant of NewTask: a handler that starts without deferring
NewTask_NoDefer(kind, u, g, ch) ==
    [pc |-> "deferred", kind |-> kind, user |-> u, guild |-> g, ch |-> ch,
     category |-> None, buf |-> <<>>, member |-> None, did |-> <<>>]

\* A handler that has run up to the return of its first awaited call,
\* "await interaction.response.defer(ephemeral=True, thinking=True)".
\* Field did lists, in the order of the code, the calls the handler has
\* completed so far.
NewTask(kind, u, g, ch) ==
    [pc |-> "deferred", kind |-> kind, user |-> u, guild |-> g, ch |-> ch,
     category |-> None, buf |-> <<>>, member |-> None, did |-> <<"defer">>]

\* The calls a handler completes in the stretch that starts at position pc,
\* in the order of the code; outcome is the answer the stretch ends with, or
\* the position it moves on to.
Effects(kind, pc, outcome) ==
    CASE pc = "deferred" /\ outcome = "InsufficientPermissions" -> <<"followup">>
      [] pc = "deferred" /\ outcome \in {"NotConfigured", "InvalidCategory"}
            -> <<"get_cfg", "followup">>
      [] pc = "deferred" /\ outcome = "DuplicateTicket"
            -> <<"get_cfg", "select", "followup">>
      [] pc = "deferred" /\ outcome = "create_text_channel"
            -> <<"get_cfg", "select">>
      [] pc = "create_text_channel" /\ outcome = "send"
            -> <<"create_text_channel", "insert">>
      [] pc = "send" /\ outcome = "Created" -> <<"channel.send", "followup">>
      [] pc = "deferred" /\ outcome \in {"NotATicket", "Forbidden"}
            -> <<"select", "followup">>
      [] pc = "deferred" /\ outcome = "history" -> <<"select">>
      [] pc = "history" /\ outcome = "send_file" -> <<"history", "update">>
      [] pc = "send_file" /\ outcome = "Closed" -> <<"channel.send", "followup">>
      \* on_app_command_error answers for a command that raised
      [] outcome = "Error" -> <<"followup">>
      \* a view callback that raised, a handler lost in a restart
      [] OTHER -> <<>>

Response(t, result, ref) ==
    [kind |-> t.kind, user |-> t.user, guild |-> t.guild, ch |-> t.ch,
     result |-> result, ref |-> ref,
     did |-> t.did \o Effects(t.kind, t.pc, result)]

One(x) == SetToBag({x})
InFlight == BagToSet(tasks)
Answered == BagToSet(responses)

\* number of invocations so far
started == BagCardinality(tasks) + BagCardinality(responses)

\* room for one more event from outside
MayHappen == started + env_used < MaxEvents

\* guild.get_channel(id): the cached channel object or None
get_channel(g, id) ==
    IF \E c \in guild_channels : c.id = id /\ c.guild = g
    THEN CHOOSE c \in guild_channels : c.id = id /\ c.guild = g
    ELSE [id |-> None, guild |-> g, type |-> "none"]

TextChannels == {c.id : c \in {x \in guild_channels : x.type = "text"}}
Alive(ch) == ch \in TextChannels
GuildOf(ch) == (CHOOSE c \in guild_channels : c.id = ch).guild

\* get_cfg(guild_id).get("ticket_cat")
get_cfg(g) == guild_config[g]

\* rowids of the rows a SELECT ... WHERE matches
RowIds == 1..Len(tickets)
\* faulty variants of OpenRowsOfUser: the duplicate check without its "AND open=1",
\* and with the flag inverted
OpenRowsOfUser_NoOpenFilter(g, u) ==
    {r \in RowIds : tickets[r].guild_id = g /\ tickets[r].user_id = u}
OpenRowsOfUser_ClosedFlag(g, u) ==
    {r \in RowIds : tickets[r].guild_id = g /\ tickets[r].user_id = u
                    /\ tickets[r].open = 0}
\* faulty variant of OpenRowsOfUser: the duplicate check keyed on the user alone
OpenRowsOfUser_AnyGuild(g, u) ==
    {r \in RowIds : tickets[r].user_id = u /\ tickets[r].open = 1}
\* faulty variant of OpenRowsOfUser: rows whose channel is gone are passed over
OpenRowsOfUser_LiveOnly(g, u) ==
    {r \in RowIds : tickets[r].guild_id = g /\ tickets[r].user_id = u
                    /\ tickets[r].open = 1 /\ Alive(tickets[r].channel_id)}
OpenRowsOfUser(g, u) ==
    {r \in RowIds : tickets[r].guild_id = g /\ tickets[r].user_id = u
                    /\ tickets[r].open = 1}
\* faulty variant of OpenRowsOfChannel: the lookup without its "AND open=1"
OpenRowsOfChannel_NoOpenFilter(g, ch) ==
    {r \in RowIds : tickets[r].guild_id = g /\ tickets[r].channel_id = ch}
OpenRowsOfChannel(g, ch) ==
    {r \in RowIds : tickets[r].guild_id = g /\ tickets[r].channel_id = ch
                    /\ tickets[r].open = 1}
\* fetchone(): the first matching row in rowid order
fetchone(S) == CHOOSE x \in S : \A y \in S : x <= y

\* faulty variant of InsertTicket: the row takes the id of the channel the button
\* was pressed in (interaction.channel) instead of the new channel's
InsertTicket_PressedChannel(g, u, ch, ts) ==
    Append(tickets, [guild_id |-> g, user_id |-> u, channel_id |-> LobbyOf(g),
                     open |-> 1, created_at |-> ts])

\* faulty variant of InsertTicket: user id and channel id bound in the wrong order
InsertTicket_Swapped(g, u, ch, ts) ==
    Append(tickets, [guild_id |-> g, user_id |-> ch, channel_id |-> u,
                     open |-> 1, created_at |-> ts])

\* "INSERT INTO tickets ... VALUES (?, ?, ?, 1, ?)"
InsertTicket(g, u, ch, ts) ==
    Append(tickets, [guild_id |-> g, user_id |-> u, channel_id |-> ch,
                     open |-> 1, created_at |-> ts])

\* faulty variant of UpdateClosed: the rows of the channel deleted instead
UpdateClosed_Delete(g, ch) ==
    SelectSeq(tickets, LAMBDA row : ~(row.guild_id = g /\ row.channel_id = ch))

\* faulty variant of UpdateClosed: the UPDATE without its "AND channel_id=?"
UpdateClosed_WholeGuild(g, ch) ==
    [r \in RowIds |->
        IF tickets[r].guild_id = g
        THEN [tickets[r] EXCEPT !.open = 0]
        ELSE tickets[r]]

\* "UPDATE tickets SET open=0 WHERE guild_id=? AND channel_id=?"
UpdateClosed(g, ch) ==
    [r \in RowIds |->
        IF tickets[r].guild_id = g /\ tickets[r].channel_id = ch
        THEN [tickets[r] EXCEPT !.open = 0]
        ELSE tickets[r]]

\* faulty variant of MayClose: staff recognised by Manage Server, as staff_check does
MayClose_ManageGuild(u, owner_id) == u = owner_id \/ manage_guild(u)

\* the authorization test of _close and of ticket_close_logic
MayClose(u, owner_id) == u = owner_id \/ manage_channels(u)

\* Texts are sequences of characters.
\* faulty variant of Flatten: the content taken as it is
Flatten_Keep(content) == content

\* (m.content or "").replace("\n", " ")
Flatten(content) ==
    [k \in 1..Len(content) |-> IF content[k] = LF THEN SP ELSE content[k]]

\* f"[{m.created_at:%d/%m %H:%M}] {m.author}: {content}"
Line(m) ==
    <<"[", ToString(m.created_at), "]", SP, ToString(m.author), ":", SP>>
        \o Flatten(m.content)

\* "Sem mensagens."
Placeholder == <<"S", "e", "m", SP, "m", "e", "n", "s", "a", "g", "e", "n", "s", ".">>

\* "\n".join(lines)
RECURSIVE Join(_)
Join(lines) ==
    IF Len(lines) = 0 THEN <<>>
    ELSE IF Len(lines) = 1 THEN lines[1]
    ELSE lines[1] \o <<LF>> \o Join(Tail(lines))

\* the text of the transcript: "\n".join(lines) or "Sem mensagens."
Transcript(msgs) ==
    LET text == Join([k \in 1..Len(msgs) |-> Line(msgs[k])])
    IN  IF text = <<>> THEN Placeholder ELSE text

\* the text of the message posted into a new ticket channel (two lines)
WelcomeText == <<"t", LF, "s">>

Message(author, content, file, ts) ==
    [author |-> author, content |-> content, file |-> file, created_at |-> ts]

\* handler t ends: what its invoker was told, and the channel named
Finish(t, result, ref) ==
    /\ tasks' = tasks (-) One(t)
    /\ responses' = responses (+) One(Response(t, result, ref))

\* handler t moves on to its next awaited call
Continue(t, t2) ==
    /\ tasks' = (tasks (-) One(t)) (+) One(t2)
    /\ UNCHANGED responses

\* An exception escaping a handler.  A view callback's exception is only
\* logged (View.on_error); a command's goes to on_app_command_error, which
\* answers with the error text.
Raise(t) ==
    Finish(t, IF t.kind = "ticketclose" THEN "Error" ELSE "NoResponse", t.ch)

\* the economy table as init_db creates it, and no command answered yet
EconomyEmpty ==
    /\ economy = [k \in {} |-> 0]
    /\ credited = EmptyBag
    /\ reply = [n |-> 0, cmd |-> "", guild |-> None, user |-> None,
                member |-> None, amount |-> 0, item |-> "", result |-> ""]

(* ------------------------------ Init ---------------------------------- *)
Init ==
    /\ tickets = <<>>
    /\ guild_config = [g \in Guilds |-> None]
    /\ guild_channels = {[id |-> LobbyOf(g), guild |-> g, type |-> "text"] : g \in Guilds}
    /\ next_id = FirstId
    /\ me_perms = [g \in Guilds |-> BotPerms]
    /\ history = [c \in ChannelIds |-> <<>>]
    /\ inline_view = {}
    /\ utcnow = 1
    /\ env_used = 0
    /\ overwrites = [c \in ChannelIds |-> {}]
    /\ tasks = EmptyBag
    /\ responses = EmptyBag
    /\ EconomyEmpty

(* ------------------------- administration ------------------------------ *)
\* /setup without a ticket_category argument, run by a member the staff_check
\* admits, in a guild not configured yet: it creates the category "TICKETS"
\* and set_cfg stores its id.  (The log and welcome channels it also creates
\* play no part in tickets.)
Setup(g) ==
    /\ guild_config[g] = None
    /\ guild_channels' = guild_channels \cup
           {[id |-> CategoryOf(g), guild |-> g, type |-> "category"]}
    /\ guild_config' = [guild_config EXCEPT ![g] = CategoryOf(g)]
    /\ UNCHANGED <<econ, overwrites, tickets, next_id, me_perms, history,
                   inline_view, utcnow, env_used, tasks, responses>>

(* --------------------------- open_ticket ------------------------------- *)
\* A member presses "Abrir Ticket" on a panel of guild g: the handler runs
\* up to "await interaction.response.defer(...)".  TicketPanelView is
\* persistent and /ticketpanel posts it wherever staff run it, so its two
\* buttons can be pressed in any text channel at any time.
PressOpen(u, g) ==
    /\ MayHappen
    /\ u \in Members(g)
    /\ tasks' = tasks (+) One(NewTask("open_ticket", u, g, None))
    /\ UNCHANGED <<econ, overwrites, tickets, guild_config, guild_channels, next_id, me_perms,
                   history, inline_view, utcnow, env_used, responses>>

\* faulty variant of MeCapable: either capability taken as enough
MeCapable_Either(g) ==
    "manage_channels" \in me_perms[g] \/ "manage_roles" \in me_perms[g]

\* the bot's capability pre-check
MeCapable(g) ==
    "manage_channels" \in me_perms[g] /\ "manage_roles" \in me_perms[g]

\* "if not cat_id"
Configured(g) == get_cfg(g) # None

\* faulty variant of CategoryValid: the looked-up category is not inspected
CategoryValid_Unchecked(g) == TRUE

\* "isinstance(category, discord.CategoryChannel)"
CategoryValid(g) == get_channel(g, get_cfg(g)).type = "category"

\* the duplicate check: an open row of (guild, user)
HasOpenTicket(g, u) == OpenRowsOfUser(g, u) # {}

\* the reference the duplicate answer carries: ch.mention, or '#apagado'
DuplicateRef(g, u) ==
    LET row == tickets[fetchone(OpenRowsOfUser(g, u))]
    IN  get_channel(g, row.channel_id).id

\* faulty variant of OpenDecision: the duplicate check made first
OpenDecision_DuplicateFirst(g, u) ==
    IF HasOpenTicket(g, u) THEN "DuplicateTicket"
    ELSE IF ~MeCapable(g) THEN "InsufficientPermissions"
    ELSE IF ~Configured(g) THEN "NotConfigured"
    ELSE IF ~CategoryValid(g) THEN "InvalidCategory"
    ELSE "proceed"

\* What the checks of open_ticket decide, in the order the code makes them.
OpenDecision(g, u) ==
    IF ~MeCapable(g) THEN "InsufficientPermissions"
    ELSE IF ~Configured(g) THEN "NotConfigured"
    ELSE IF ~CategoryValid(g) THEN "InvalidCategory"
    ELSE IF HasOpenTicket(g, u) THEN "DuplicateTicket"
    ELSE "proceed"

\* From the return of defer to the next awaited call: either the followup
\* that reports a failed check, or guild.create_text_channel.
OpenCheck(t) ==
    LET d == OpenDecision(t.guild, t.user)
    IN  /\ t.pc = "deferred"
        /\ t.kind = "open_ticket"
        /\ IF d = "proceed"
           THEN Continue(t, [t EXCEPT !.pc = "create_text_channel",
                                      !.category = get_cfg(t.guild),
                                      !.did = @ \o Effects(t.kind, t.pc,
                                                           "create_text_channel")])
           ELSE Finish(t, d, IF d = "DuplicateTicket"
                              THEN DuplicateRef(t.guild, t.user) ELSE None)
        /\ UNCHANGED <<econ, overwrites, tickets, guild_config, guild_channels, next_id, me_perms,
                       history, inline_view, utcnow, env_used>>

\* The platform accepts create_text_channel when the bot may manage channels
\* and set overwrites and the parent category still exists.
PlatformCreates(g, category) ==
    /\ MeCapable(g)
    /\ get_channel(g, category).type = "category"

\* a permission overwrite: what it is set on, and what it allows and denies
Overwrite(kind, id, allow, deny) ==
    [target |-> [kind |-> kind, id |-> id], allow |-> allow, deny |-> deny]

\* guild.default_role, the role every member of the guild holds
default_role(g) == g

\* faulty variant of TicketOverwrites: the default role is not denied the view
TicketOverwrites_NoDeny(g, u) ==
    {Overwrite("role", default_role(g), {}, {}),
     Overwrite("member", u, {"view_channel", "send_messages", "attach_files",
                             "read_message_history"}, {}),
     Overwrite("member", Me, {"view_channel", "send_messages",
                              "manage_channels", "attach_files"}, {})}

\* the dict "overwrites" that open_ticket passes to create_text_channel
TicketOverwrites(g, u) ==
    {Overwrite("role", default_role(g), {}, {"view_channel"}),
     Overwrite("member", u, {"view_channel", "send_messages", "attach_files",
                             "read_message_history"}, {}),
     Overwrite("member", Me, {"view_channel", "send_messages",
                              "manage_channels", "attach_files"}, {})}

\* faulty variant of ChannelCreated: the platform hands out the same id again
ChannelCreated_ReusedId(t) ==
    /\ guild_channels' = guild_channels \cup
           {[id |-> FirstId, guild |-> t.guild, type |-> "text"]}
    /\ overwrites' = [overwrites EXCEPT ![FirstId] =
                          TicketOverwrites(t.guild, t.user)]
    /\ next_id' = FirstId + 1

\* the platform has created the channel that create_text_channel asked for
ChannelCreated(t) ==
    /\ guild_channels' = guild_channels \cup
           {[id |-> next_id, guild |-> t.guild, type |-> "text"]}
    /\ overwrites' = [overwrites EXCEPT ![next_id] =
                          TicketOverwrites(t.guild, t.user)]
    /\ next_id' = next_id + 1

\* create_text_channel returns: the channel exists, and the handler inserts
\* the row before it awaits channel.send.  A refused call raises.
OpenCreate(t) ==
    /\ t.pc = "create_text_channel"
    /\ IF PlatformCreates(t.guild, t.category)
       THEN /\ ChannelCreated(t)
            /\ tickets' = InsertTicket(t.guild, t.user, next_id, utcnow)
            /\ utcnow' = utcnow + 1
            /\ Continue(t, [t EXCEPT !.pc = "send", !.ch = next_id,
                                     !.category = None,
                                     !.did = @ \o Effects(t.kind, t.pc, "send")])
       ELSE /\ Raise(t)
            /\ UNCHANGED <<overwrites, tickets, guild_channels, next_id, utcnow>>
    /\ UNCHANGED <<econ, guild_config, me_perms, history, inline_view,
                   env_used>>

\* channel.send(..., view=v) returns, then the followup "Ticket criado".
\* Sending to a channel that was deleted meanwhile raises NotFound.
OpenSend(t) ==
    /\ t.pc = "send"
    /\ IF Alive(t.ch)
       THEN /\ history' = [history EXCEPT ![t.ch] =
                   Append(@, Message(Me, WelcomeText, <<>>, utcnow))]
            /\ inline_view' = inline_view \cup {[ch |-> t.ch, author |-> t.user]}
            /\ Finish(t, "Created", t.ch)
       ELSE /\ Raise(t)
            /\ UNCHANGED <<history, inline_view>>
    /\ UNCHANGED <<econ, overwrites, tickets, guild_config, guild_channels, next_id, me_perms,
                   utcnow, env_used>>

(* ------------------------------ close ---------------------------------- *)
CloseKinds == {"_close", "close_ticket", "ticketclose"}

\* An entry point that admits its invoker defers and goes on to
\* ticket_close_logic; one that does not answers at once.
StartClose(kind, u, ch, admitted) ==
    LET t == NewTask(kind, u, GuildOf(ch), ch)
    IN  IF admitted
        THEN tasks' = tasks (+) One(t) /\ UNCHANGED responses
        ELSE responses' = responses (+)
                 One([Response(t, "Forbidden", ch) EXCEPT !.did = <<"send_message">>])
             /\ UNCHANGED tasks

\* The inline "Fechar Ticket" control of ticket channel ch: _close tests the
\* presser against the author captured at creation, answers at once when the
\* test fails, and defers otherwise.
PressInlineClose(u, v) ==
    /\ MayHappen
    /\ v \in inline_view
    /\ Alive(v.ch)
    /\ u \in Members(GuildOf(v.ch))
    /\ StartClose("_close", u, v.ch, MayClose(u, v.author))
    /\ UNCHANGED <<econ, overwrites, tickets, guild_config, guild_channels, next_id, me_perms,
                   history, inline_view, utcnow, env_used>>

\* "Fechar Ticket (aqui)" of a panel in channel ch: defers at once.
PressPanelClose(u, ch) ==
    /\ MayHappen
    /\ Alive(ch)
    /\ u \in Members(GuildOf(ch))
    /\ StartClose("close_ticket", u, ch, TRUE)
    /\ UNCHANGED <<econ, overwrites, tickets, guild_config, guild_channels, next_id, me_perms,
                   history, inline_view, utcnow, env_used>>

\* /ticketclose in channel ch: staff_check raises for a member without
\* Manage Server (on_app_command_error answers); otherwise the command defers.
CmdTicketClose(u, ch) ==
    /\ MayHappen
    /\ Alive(ch)
    /\ u \in Members(GuildOf(ch))
    /\ StartClose("ticketclose", u, ch, manage_guild(u))
    /\ UNCHANGED <<econ, overwrites, tickets, guild_config, guild_channels, next_id, me_perms,
                   history, inline_view, utcnow, env_used>>

\* What the first part of ticket_close_logic decides.
CloseDecision(g, ch, u) ==
    IF OpenRowsOfChannel(g, ch) = {} THEN "NotATicket"
    ELSE IF ~MayClose(u, tickets[fetchone(OpenRowsOfChannel(g, ch))].user_id)
         THEN "Forbidden"
    ELSE "proceed"

\* ticket_close_logic from its start to the first fetch of ch.history().
CloseLookup(t) ==
    LET d == CloseDecision(t.guild, t.ch, t.user)
    IN  /\ t.pc = "deferred"
        /\ t.kind \in CloseKinds
        /\ IF d = "proceed"
           THEN Continue(t, [t EXCEPT !.pc = "history",
                                      !.did = @ \o Effects(t.kind, t.pc, "history")])
           ELSE Finish(t, d, t.ch)
        /\ UNCHANGED <<econ, overwrites, tickets, guild_config, guild_channels, next_id, me_perms,
                       history, inline_view, utcnow, env_used>>

\* ch.history() has been read to its end: the transcript is built and the
\* UPDATE committed before "await ch.send(file=...)".  Reading the history of
\* a deleted channel raises.
CloseTranscribe(t) ==
    /\ t.pc = "history"
    /\ IF Alive(t.ch)
       THEN /\ tickets' = UpdateClosed(t.guild, t.ch)
            /\ Continue(t, [t EXCEPT !.pc = "send_file",
                                     !.buf = Transcript(history[t.ch]),
                                     !.did = @ \o Effects(t.kind, t.pc, "send_file")])
       ELSE /\ Raise(t)
            /\ UNCHANGED tickets
    /\ UNCHANGED <<econ, overwrites, guild_config, guild_channels, next_id, me_perms,
                   history, inline_view, utcnow, env_used>>

\* ch.send(file=transcript) returns, then the followup "Ticket fechado".
CloseSendFile(t) ==
    /\ t.pc = "send_file"
    /\ IF Alive(t.ch)
       THEN /\ history' = [history EXCEPT ![t.ch] =
                   Append(@, Message(Me, <<>>, t.buf, utcnow))]
            /\ Finish(t, "Closed", t.ch)
       ELSE /\ Raise(t)
            /\ UNCHANGED history
    /\ UNCHANGED <<econ, overwrites, tickets, guild_config, guild_channels, next_id, me_perms,
                   inline_view, utcnow, env_used>>

(* ----------------------- /ticketadd, /ticketremove --------------------- *)
MemberKinds == {"ticketadd", "ticketremove"}

\* /ticketadd or /ticketremove naming member m, run in channel ch:
\* staff_check raises for an invoker without Manage Server
\* (on_app_command_error answers); otherwise the command, which does not
\* defer, awaits ch.set_permissions.
CmdTicketMember(kind, u, ch, m) ==
    LET t == [NewTask(kind, u, GuildOf(ch), ch) EXCEPT
                 !.pc = "set_permissions", !.member = m, !.did = <<>>]
    IN  /\ MayHappen
        /\ Alive(ch)
        /\ u \in Members(GuildOf(ch))
        /\ m \in Members(GuildOf(ch))
        /\ IF manage_guild(u)
           THEN tasks' = tasks (+) One(t) /\ UNCHANGED responses
           ELSE responses' = responses (+)
                    One([Response(t, "Forbidden", ch) EXCEPT
                            !.did = <<"send_message">>])
                /\ UNCHANGED tasks
        /\ UNCHANGED <<econ, overwrites, tickets, guild_config, guild_channels, next_id,
                       me_perms, history, inline_view, utcnow, env_used>>

\* faulty variant of SetPermissions: /ticketremove clears the channel's overwrites
SetPermissions_ClearAll(kind, ows, m) ==
    IF kind = "ticketadd"
    THEN {o \in ows : o.target # [kind |-> "member", id |-> m]} \cup
         {Overwrite("member", m, {"view_channel", "send_messages",
                                  "attach_files", "read_message_history"}, {})}
    ELSE {}

\* ch.set_permissions(member, view_channel=True, send_messages=True,
\* attach_files=True, read_message_history=True) replaces the member's
\* overwrite by the one given; ch.set_permissions(member, overwrite=None)
\* deletes the member's overwrite.
SetPermissions(kind, ows, m) ==
    IF kind = "ticketadd"
    THEN {o \in ows : o.target # [kind |-> "member", id |-> m]} \cup
         {Overwrite("member", m, {"view_channel", "send_messages",
                                  "attach_files", "read_message_history"}, {})}
    ELSE {o \in ows : o.target # [kind |-> "member", id |-> m]}

\* set_permissions returns, then the answer "adicionado" / "removido".  The
\* platform refuses the edit when the channel is gone or the bot may not
\* manage permissions; the exception goes to on_app_command_error.
TicketMemberSet(t) ==
    /\ t.kind \in MemberKinds
    /\ t.pc = "set_permissions"
    /\ IF Alive(t.ch) /\ "manage_roles" \in me_perms[t.guild]
       THEN /\ overwrites' = [overwrites EXCEPT ![t.ch] =
                                  SetPermissions(t.kind, @, t.member)]
            /\ tasks' = tasks (-) One(t)
            /\ responses' = responses (+)
                   One([Response(t, "Done", t.ch) EXCEPT
                           !.did = <<"set_permissions", "send_message">>])
       ELSE /\ tasks' = tasks (-) One(t)
            /\ responses' = responses (+)
                   One([Response(t, "Error", t.ch) EXCEPT
                           !.did = <<"send_message">>])
            /\ UNCHANGED overwrites
    /\ UNCHANGED <<econ, tickets, guild_config, guild_channels, next_id, me_perms,
                   history, inline_view, utcnow, env_used>>

(* ---------------------------- the platform ----------------------------- *)
\* An operator deletes a created channel or category out of band.
DeleteChannel(c) ==
    /\ MayHappen
    /\ c \in guild_channels
    /\ c.id >= FirstId
    /\ guild_channels' = guild_channels \ {c}
    /\ env_used' = env_used + 1
    /\ UNCHANGED <<econ, overwrites, tickets, guild_config, next_id, me_perms, history,
                   inline_view, utcnow, tasks, responses>>

\* An operator grants the bot's role a permission or takes one away.
EditBotPerms(g, p) ==
    /\ MayHappen
    /\ me_perms' = [me_perms EXCEPT ![g] =
                       IF p \in @ THEN @ \ {p} ELSE @ \cup {p}]
    /\ env_used' = env_used + 1
    /\ UNCHANGED <<econ, overwrites, tickets, guild_config, guild_channels, next_id, history,
                   inline_view, utcnow, tasks, responses>>

(* ----------------------------- restart --------------------------------- *)
\* faulty variant of init_db: the table created anew at every start-up
init_db_Fresh(rows) == <<>>

\* init_db at start-up: "CREATE TABLE IF NOT EXISTS" leaves the rows of an
\* existing table as they are
init_db(rows) == rows

\* The process stops and starts again.  The handlers in flight are lost
\* with it and their invokers hear nothing more; the database file and the
\* platform's channels stay.  setup_hook runs init_db and registers
\* TicketPanelView again, so the panel buttons keep working; the close
\* control posted into a ticket channel belongs to a view that only the
\* stopped process knew, and nothing registers it again.
Restart ==
    /\ MayHappen
    /\ tickets' = init_db(tickets)
    /\ tasks' = EmptyBag
    /\ responses' = responses (+)
           BagOfAll(LAMBDA t : Response(t, "Lost", t.ch), tasks)
    /\ inline_view' = {}
    /\ env_used' = env_used + 1
    /\ UNCHANGED <<econ, overwrites, guild_config, guild_channels, next_id, me_perms,
                   history, utcnow>>

(* ------------------------------ Next ----------------------------------- *)
Next ==
    \/ \E g \in Guilds : Setup(g)
    \/ \E g \in Guilds, u \in Users : PressOpen(u, g)
    \/ \E t \in InFlight : OpenCheck(t)
    \/ \E t \in InFlight : OpenCreate(t)
    \/ \E t \in InFlight : OpenSend(t)
    \/ \E u \in Users, v \in inline_view : PressInlineClose(u, v)
    \/ \E u \in Users, ch \in ChannelIds : PressPanelClose(u, ch)
    \/ \E u \in Users, ch \in ChannelIds : CmdTicketClose(u, ch)
    \/ \E t \in InFlight : CloseLookup(t)
    \/ \E t \in InFlight : CloseTranscribe(t)
    \/ \E t \in InFlight : CloseSendFile(t)
    \/ \E c \in guild_channels : DeleteChannel(c)
    \/ \E g \in Guilds, p \in BotPerms : EditBotPerms(g, p)
    \/ Restart

Spec == Init /\ [][Next]_vars

(* ------------------- with the membership commands ---------------------- *)
NextMembers ==
    \/ Next
    \/ \E kind \in MemberKinds, u \in Users, ch \in ChannelIds, m \in Users :
          CmdTicketMember(kind, u, ch, m)
    \/ \E t \in InFlight : TicketMemberSet(t)

\* the ticket lifecycle together with /ticketadd and /ticketremove
SpecMembers == Init /\ [][NextMembers]_vars

(* ------------------------ transcripts alone ---------------------------- *)
\* longest history and longest message content tried
MaxMsgs == 2
MaxContent == 2

\* who wrote into the ticket channel: its owner and the bot
Posters == {1, Me}
Chars == {"a", LF}
Contents == UNION {[1..n -> Chars] : n \in 0..MaxContent}
Messages == {Message(a, c, <<>>, 1) : a \in Posters, c \in Contents}
Histories == UNION {[1..n -> Messages] : n \in 0..MaxMsgs}

\* User 1's ticket in guild 1 is open on the first created channel, which
\* holds any history, and the owner's press of the panel's close button has
\* passed the checks of ticket_close_logic: the handler is reading
\* ch.history().
InitTranscript ==
    /\ tickets = <<[guild_id |-> 1, user_id |-> 1, channel_id |-> FirstId,
                    open |-> 1, created_at |-> 1]>>
    /\ guild_config = [g \in Guilds |-> IF g = 1 THEN CategoryOf(1) ELSE None]
    /\ guild_channels =
           {[id |-> LobbyOf(g), guild |-> g, type |-> "text"] : g \in Guilds}
           \cup {[id |-> CategoryOf(1), guild |-> 1, type |-> "category"],
                 [id |-> FirstId, guild |-> 1, type |-> "text"]}
    /\ next_id = FirstId + 1
    /\ me_perms = [g \in Guilds |-> BotPerms]
    /\ \E h \in Histories :
          history = [c \in ChannelIds |-> IF c = FirstId THEN h ELSE <<>>]
    /\ inline_view = {[ch |-> FirstId, author |-> 1]}
    /\ utcnow = 2
    /\ env_used = 0
    /\ overwrites = [c \in ChannelIds |->
                        IF c = FirstId THEN TicketOverwrites(1, 1) ELSE {}]
    /\ tasks = One([NewTask("close_ticket", 1, 1, FirstId) EXCEPT
                        !.pc = "history", !.did = <<"defer", "select">>])
    /\ responses = One(Response([NewTask("open_ticket", 1, 1, None) EXCEPT
                                     !.pc = "send", !.ch = FirstId,
                                     !.did = <<"defer", "get_cfg", "select",
                                               "create_text_channel", "insert">>],
                                 "Created", FirstId))
    /\ EconomyEmpty

NextTranscript ==
    \/ \E t \in InFlight : CloseTranscribe(t)
    \/ \E t \in InFlight : CloseSendFile(t)

\* the close of one ticket over every history up to the bounds
SpecTranscript == InitTranscript /\ [][NextTranscript]_vars

(* --------------------------- store faults ------------------------------ *)
\* create_text_channel has returned the new channel and the INSERT that
\* follows raises (sqlite3.OperationalError: the database file is locked,
\* the disk is full).  open_ticket has no try/except around lines 617-621:
\* the exception leaves the callback and the handler ends there.
InsertRaises(t) ==
    /\ MayHappen
    /\ t.pc = "create_text_channel"
    /\ PlatformCreates(t.guild, t.category)
    /\ ChannelCreated(t)
    /\ tasks' = tasks (-) One(t)
    /\ responses' = responses (+)
           One(Response([t EXCEPT !.ch = next_id,
                                  !.did = @ \o <<"create_text_channel">>],
                        "NoResponse", next_id))
    /\ env_used' = env_used + 1
    /\ UNCHANGED <<econ, tickets, guild_config, me_perms, history, inline_view,
                   utcnow>>

NextFaults ==
    \/ Next
    \/ \E t \in InFlight : InsertRaises(t)

\* the bot on a store that can fail
SpecFaults == Init /\ [][NextFaults]_vars

(* ------------------------------ economy -------------------------------- *)
DAILY_AMOUNT == 250
SHOP_ITEMS == [vip |-> 1500, nickcolor |-> 800, crate |-> 400]

\* economy commands answered in one run
MaxCommands == 4
\* the clock readings of one run are 1..MaxClock
MaxClock == 4
\* clock readings per calendar date
TicksPerDay == 2

\* the amounts and item names that invokers type
Amounts == {-250, 100, 250}
ItemInputs == {"Crate", "vip", "sword"}

\* everything the economy commands leave alone
ticket_vars == <<tickets, guild_config, guild_channels, next_id, me_perms, history,
                 inline_view, env_used, overwrites, tasks, responses>>

\* datetime.isoformat(): the date and the time of day, written out
isoformat(ts) == <<ts \div TicksPerDay, ts % TicksPerDay>>
\* datetime.fromisoformat(): the reading that the text stands for
fromisoformat(text) == text[1] * TicksPerDay + text[2]
\* faulty variant of date: the reading itself, time of day included
date_WithTime(ts) == ts
\* datetime.date(): the calendar date of a reading
date(ts) == ts \div TicksPerDay

\* str.lower() on the item names above
lower(item) == IF item = "Crate" THEN "crate" ELSE item

\* An inventory is a dict in insertion order: a sequence of <<item, count>>.
\* json.dumps writes it as the tokens { item : count , item : count }.
RECURSIVE dumps_items(_)
dumps_items(inv) ==
    IF inv = <<>> THEN <<>>
    ELSE <<inv[1][1], ":", ToString(inv[1][2])>>
         \o (IF Len(inv) > 1 THEN <<",">> ELSE <<>>)
         \o dumps_items(Tail(inv))
dumps(inv) == <<"{">> \o dumps_items(inv) \o <<"}">>

\* int() of a count written by json.dumps
int(text) == CHOOSE n \in 0..(MaxCommands + 1) : ToString(n) = text
\* json.loads reads the tokens back into a dict
RECURSIVE loads_items(_)
loads_items(toks) ==
    IF Len(toks) < 3 THEN <<>>
    ELSE <<<<toks[1], int(toks[3])>>>>
         \o (IF Len(toks) > 4 THEN loads_items(SubSeq(toks, 5, Len(toks)))
             ELSE <<>>)
loads(text) == loads_items(SubSeq(text, 2, Len(text) - 1))

\* "SELECT ... FROM economy WHERE guild_id=? AND user_id=?" .fetchone():
\* the row, or nothing
select_econ(tbl, g, u) == IF <<g, u>> \in DOMAIN tbl THEN {tbl[<<g, u>>]} ELSE {}
the(row) == CHOOSE r \in row : TRUE
\* row["balance"] if row else 0
balance_of(row) == IF row = {} THEN 0 ELSE the(row).balance
\* faulty variant of last_daily_of: the stamp is not carried over
last_daily_of_None(row) == <<>>
\* row["last_daily"] if row else None; <<>> stands for None
last_daily_of(row) == IF row = {} THEN <<>> ELSE the(row).last_daily
_get_inv(row) ==
    IF row = {} THEN <<>>
    ELSE IF the(row).inv_json = <<>> THEN <<>>
    ELSE loads(the(row).inv_json)

\* "REPLACE INTO economy ... VALUES (?, ?, ?, ?, ?)" and commit, on table tbl
_save_econ(tbl, g, u, bal, inv, last_daily) ==
    [k \in DOMAIN tbl \cup {<<g, u>>} |->
        IF k = <<g, u>>
        THEN [balance |-> bal, last_daily |-> last_daily, inv_json |-> dumps(inv)]
        ELSE tbl[k]]

\* the answer to an economy command
Answer(cmd, g, u, m, amount, item, result) ==
    [n |-> reply.n + 1, cmd |-> cmd, guild |-> g, user |-> u, member |-> m,
     amount |-> amount, item |-> item, result |-> result]
MayCommand == reply.n < MaxCommands

\* /daily.  The SELECT, the comparison of dates and the REPLACE run without an
\* await between them.  utcnow() is read twice, for "today" and for the stamp,
\* and the clock may move on between the two readings.
daily(g, u) ==
    LET row == select_econ(economy, g, u)
        bal == balance_of(row)
        last == IF last_daily_of(row) = <<>> THEN {}
                ELSE {date(fromisoformat(last_daily_of(row)))}
        inv == _get_inv(row)
        today == date(utcnow)
    IN  /\ MayCommand
        /\ u \in Members(g)
        /\ IF last = {today}
           THEN /\ reply' = Answer("daily", g, u, None, 0, "", "AlreadyCollected")
                /\ UNCHANGED <<economy, credited, utcnow>>
           ELSE \E now \in {utcnow, utcnow + 1} :
                   /\ now <= MaxClock
                   /\ utcnow' = now
                   /\ economy' = _save_econ(economy, g, u, bal + DAILY_AMOUNT, inv,
                                            isoformat(now))
                   /\ credited' = credited (+)
                          One([guild |-> g, user |-> u, today |-> utcnow,
                               stamp |-> now])
                   /\ reply' = Answer("daily", g, u, None, 0, "", "Collected")
        /\ UNCHANGED ticket_vars

\* faulty variant of InRange: any integer is let through
InRange_Unchecked(amount) == TRUE

\* app_commands.Range[int, 1, 10_000_000]: the transformer raises for an
\* amount outside the range and on_app_command_error answers
InRange(amount) == amount >= 1 /\ amount <= 10000000

\* /pay member amount
pay(g, u, m, amount) ==
    LET me == select_econ(economy, g, u)
        mybal == balance_of(me)
        other == select_econ(economy, g, m)
        paid == _save_econ(economy, g, u, mybal - amount, _get_inv(me),
                           last_daily_of(me))
    IN  /\ MayCommand
        /\ u \in Members(g) /\ m \in Members(g)
        /\ IF ~InRange(amount)
           THEN /\ reply' = Answer("pay", g, u, m, amount, "", "Error")
                /\ UNCHANGED economy
           ELSE IF m = u
           THEN /\ reply' = Answer("pay", g, u, m, amount, "", "SelfPay")
                /\ UNCHANGED economy
           ELSE IF mybal < amount
           THEN /\ reply' = Answer("pay", g, u, m, amount, "", "Insufficient")
                /\ UNCHANGED economy
           ELSE /\ economy' = _save_econ(paid, g, m, balance_of(other) + amount,
                                         _get_inv(other), last_daily_of(other))
                /\ reply' = Answer("pay", g, u, m, amount, "", "Paid")
        /\ UNCHANGED <<credited, utcnow, ticket_vars>>

\* inv[item] = inv.get(item, 0) + 1
Put(inv, item) ==
    IF \E i \in DOMAIN inv : inv[i][1] = item
    THEN [i \in DOMAIN inv |->
             IF inv[i][1] = item THEN <<item, inv[i][2] + 1>> ELSE inv[i]]
    ELSE Append(inv, <<item, 1>>)

\* /buy item
buy(g, u, item) ==
    LET name == lower(item)
        row == select_econ(economy, g, u)
        bal == balance_of(row)
    IN  /\ MayCommand
        /\ u \in Members(g)
        /\ IF name \notin DOMAIN SHOP_ITEMS
           THEN /\ reply' = Answer("buy", g, u, None, 0, item, "NoSuchItem")
                /\ UNCHANGED economy
           ELSE IF bal < SHOP_ITEMS[name]
           THEN /\ reply' = Answer("buy", g, u, None, 0, item, "Insufficient")
                /\ UNCHANGED economy
           ELSE /\ economy' = _save_econ(economy, g, u, bal - SHOP_ITEMS[name],
                                         Put(_get_inv(row), name),
                                         last_daily_of(row))
                /\ reply' = Answer("buy", g, u, None, 0, item, "Bought")
        /\ UNCHANGED <<credited, utcnow, ticket_vars>>

\* time passes
Tick ==
    /\ utcnow < MaxClock
    /\ utcnow' = utcnow + 1
    /\ UNCHANGED <<econ, ticket_vars>>

NextEconomy ==
    \/ \E g \in Guilds, u \in Users : daily(g, u)
    \/ \E g \in Guilds, u \in Users, m \in Users, amount \in Amounts :
          pay(g, u, m, amount)
    \/ \E g \in Guilds, u \in Users, item \in ItemInputs : buy(g, u, item)
    \/ Tick

\* the economy commands, in any order and by any members
SpecEconomy == Init /\ [][NextEconomy]_vars

(* ------------------- a ticket whose channel is gone -------------------- *)
\* The state after /setup in guild 1, one ticket opened there by user 1 and
\* its channel deleted out of band, with e events counted so far.
AfterDeletion(e) ==
    /\ tickets = <<[guild_id |-> 1, user_id |-> 1, channel_id |-> FirstId,
                    open |-> 1, created_at |-> 1]>>
    /\ guild_config = [g \in Guilds |-> IF g = 1 THEN CategoryOf(1) ELSE None]
    /\ guild_channels =
           {[id |-> LobbyOf(g), guild |-> g, type |-> "text"] : g \in Guilds}
           \cup {[id |-> CategoryOf(1), guild |-> 1, type |-> "category"]}
    /\ next_id = FirstId + 1
    /\ me_perms = [g \in Guilds |-> BotPerms]
    /\ history = [c \in ChannelIds |->
                     IF c = FirstId THEN <<Message(Me, WelcomeText, <<>>, 2)>>
                     ELSE <<>>]
    /\ inline_view = {[ch |-> FirstId, author |-> 1]}
    /\ utcnow = 2
    /\ env_used = e
    /\ overwrites = [c \in ChannelIds |->
                        IF c = FirstId THEN TicketOverwrites(1, 1) ELSE {}]
    /\ tasks = EmptyBag
    /\ responses = One(Response([NewTask("open_ticket", 1, 1, None) EXCEPT
                                     !.pc = "send", !.ch = FirstId,
                                     !.did = <<"defer", "get_cfg", "select",
                                               "create_text_channel", "insert">>],
                                 "Created", FirstId))
    /\ EconomyEmpty

\* the events from outside are counted from the deletion on
InitDangling == AfterDeletion(0)

\* the bot from the moment the channel of an open ticket has been deleted
SpecDangling == InitDangling /\ [][Next]_vars

(* =========================== properties ================================ *)
(* What a step did, read off the two bags. *)
\* the process stops and starts again in this step
RestartStep ==
    /\ env_used' = env_used + 1
    /\ guild_channels' = guild_channels
    /\ me_perms' = me_perms
\* response r is delivered in this step
Answers(r) ==
    /\ CopiesIn(r, responses') > CopiesIn(r, responses)
    /\ r.result # "Lost"
\* the in-flight handler t takes this step
Leaves(t) ==
    /\ CopiesIn(t, tasks') < CopiesIn(t, tasks)
    /\ ~RestartStep
\* a handler arrives at position t in this step
Enters(t) == CopiesIn(t, tasks') > CopiesIn(t, tasks)
\* the step is an entry point answering at once, or a handler's checks
\* right after its defer: the step in which a request is decided
DecidesNow == \A t \in InFlight : Leaves(t) => t.pc = "deferred"

(* The tables and channels, read directly. *)
Rows == DOMAIN tickets
IsOpenRow(r) == tickets[r].open = 1
RowOn(r, g, ch) == tickets[r].guild_id = g /\ tickets[r].channel_id = ch
RowOf(r, g, u) == tickets[r].guild_id = g /\ tickets[r].user_id = u
OpenRowOn(g, ch) == \E r \in Rows : RowOn(r, g, ch) /\ IsOpenRow(r)
OpenRowOf(g, u) == \E r \in Rows : RowOf(r, g, u) /\ IsOpenRow(r)
\* a transcript file has been sent to channel ch
Attached(ch) == \E k \in DOMAIN history[ch] : Len(history[ch][k].file) >= 1
ChannelExists(g, ch) ==
    [id |-> ch, guild |-> g, type |-> "text"] \in guild_channels
BotHas(g, p) == p \in me_perms[g]
CategoryThere(g) ==
    /\ guild_config[g] # None
    /\ [id |-> guild_config[g], guild |-> g, type |-> "category"] \in guild_channels

(* C1 (stated; the code violates it): at most one row with open = 1 for any
   (guild_id, user_id), in every reachable state, also while two open
   handlers of one user are both waiting in create_text_channel. *)
C1_Uniqueness ==
    \A g \in Guilds, u \in Users :
        Cardinality({r \in Rows : RowOf(r, g, u) /\ IsOpenRow(r)}) <= 1

(* C2 (as stated; refuted): a close request decided while its channel has no
   open row is answered NotATicket, sends nothing to the channel and changes
   no row. *)
C2_AlwaysNotATicket ==
    [][\A r \in BagToSet(responses') :
          (Answers(r) /\ r.kind \in CloseKinds /\ DecidesNow
              /\ ~OpenRowOn(r.guild, r.ch))
          => (r.result = "NotATicket" /\ tickets' = tickets /\ history' = history)
      ]_vars

\* the entry point itself turns the invoker away, before ticket_close_logic
EntryRejects(kind, u, ch) ==
    \/ /\ kind = "_close"
       /\ \E v \in inline_view : v.ch = ch /\ u # v.author /\ ~manage_channels(u)
    \/ /\ kind = "ticketclose"
       /\ ~manage_guild(u)

(* C2 (amended): a close request decided while its channel has no open row
   never gets as far as the history fetch, sends nothing to the channel and
   changes no row; it is answered NotATicket when it reaches
   ticket_close_logic, and Forbidden when its own entry point turns the
   invoker away first (the inline control: neither author nor Manage
   Channels; /ticketclose: no Manage Server). *)
C2_ClosedChannelNeverCloses ==
    [][/\ \A r \in BagToSet(responses') :
             (Answers(r) /\ r.kind \in CloseKinds /\ DecidesNow
                 /\ ~OpenRowOn(r.guild, r.ch))
             => /\ tickets' = tickets
                /\ history' = history
                /\ IF EntryRejects(r.kind, r.user, r.ch)
                   THEN r.result = "Forbidden" /\ tasks' = tasks
                   ELSE r.result = "NotATicket"
       /\ \A t \in BagToSet(tasks') :
             (Enters(t) /\ t.pc = "history") => OpenRowOn(t.guild, t.ch)
      ]_vars

\* a close request was answered NotATicket on a channel whose ticket is closed
C2_Witness ==
    \E r \in Answered :
        /\ r.kind \in CloseKinds
        /\ r.result = "NotATicket"
        /\ \E row \in Rows : RowOn(row, r.guild, r.ch) /\ ~IsOpenRow(row)

\* the Closed answers given for channel ch
ClosedAnswers(ch) == {r \in Answered : r.result = "Closed" /\ r.ch = ch}

(* C3 (stated; the code violates it): for every ticket channel at most one
   close request is ever answered Closed. *)
C3_AtMostOneClosed ==
    \A ch \in ChannelIds :
        /\ Cardinality(ClosedAnswers(ch)) <= 1
        /\ \A r \in ClosedAnswers(ch) : CopiesIn(r, responses) = 1

\* the invoker u is neither the owner of an open row on (g, ch) nor staff
Outsider(g, ch, u) ==
    /\ ~manage_channels(u)
    /\ \E r \in Rows : RowOn(r, g, ch) /\ IsOpenRow(r) /\ tickets[r].user_id # u

(* C4: a close request decided while its channel holds an open ticket whose
   owner is someone else, by an invoker without Manage Channels, is answered
   Forbidden, changes no row and sends nothing to the channel, and no such
   request ever reaches the history fetch; whichever of the three entry
   points it came through. *)
C4_AuthorizationBoundary ==
    [][/\ \A r \in BagToSet(responses') :
             (Answers(r) /\ r.kind \in CloseKinds /\ DecidesNow
                 /\ Outsider(r.guild, r.ch, r.user))
             => (r.result = "Forbidden" /\ tickets' = tickets
                 /\ history' = history)
       /\ \A t \in BagToSet(tasks') :
             (Enters(t) /\ t.pc \in {"history", "send_file"})
             => ~Outsider(t.guild, t.ch, t.user)
      ]_vars

\* an outsider was refused by two different entry points on a ticket that is
\* still open
C4_Witness ==
    \E r1, r2 \in Answered :
        /\ r1.kind = "close_ticket" /\ r2.kind \in {"_close", "ticketclose"}
        /\ r1.ch = r2.ch
        /\ r1.result = "Forbidden" /\ r2.result = "Forbidden"
        /\ Outsider(r1.guild, r1.ch, r1.user)
        /\ Outsider(r2.guild, r2.ch, r2.user)

(* C5 (stated; the code violates it): no ticket row is closed unless a
   transcript has been attached to its channel: the attachment comes before
   the commit of open = 0. *)
C5_TranscriptBeforeClosed ==
    \A r \in Rows : ~IsOpenRow(r) => Attached(tickets[r].channel_id)

(* C6: an open attempt whose duplicate check finds an open row of
   (guild, user) ends in that step with the answer DuplicateTicket: it never
   reaches create_text_channel, and rows, channels and the id counter are
   the same after the step as before. *)
C6_DuplicateCreatesNothing ==
    [][\A t \in InFlight :
          (Leaves(t) /\ t.kind = "open_ticket" /\ t.pc = "deferred"
              /\ BotHas(t.guild, "manage_channels") /\ BotHas(t.guild, "manage_roles")
              /\ CategoryThere(t.guild) /\ OpenRowOf(t.guild, t.user))
          => /\ \E r \in BagToSet(responses') :
                   /\ Answers(r)
                   /\ r.kind = "open_ticket" /\ r.user = t.user
                   /\ r.result = "DuplicateTicket"
             /\ BagCardinality(tasks') = BagCardinality(tasks) - 1
             /\ tickets' = tickets
             /\ guild_channels' = guild_channels
             /\ next_id' = next_id
      ]_vars

\* a DuplicateTicket answer was given and the user's one ticket is untouched
C6_Witness ==
    \E r \in Answered :
        /\ r.kind = "open_ticket" /\ r.result = "DuplicateTicket"
        /\ Cardinality({row \in Rows : RowOf(row, r.guild, r.user)}) = 1
        /\ OpenRowOf(r.guild, r.user)

\* the channels of the open rows of (g, u)
OpenChannelsOf(g, u) ==
    {tickets[r].channel_id : r \in {x \in Rows : RowOf(x, g, u) /\ IsOpenRow(x)}}

(* C7 (as stated; refuted): whenever an Open Ticket press is decided while
   the user has an open ticket in the guild, the answer is DuplicateTicket
   and names the channel of an open ticket of that user. *)
C7_AlwaysSameReference ==
    [][\A t \in InFlight :
          (Leaves(t) /\ t.kind = "open_ticket" /\ t.pc = "deferred"
              /\ OpenRowOf(t.guild, t.user))
          => \E r \in BagToSet(responses') :
                /\ Answers(r)
                /\ r.kind = "open_ticket" /\ r.user = t.user
                /\ r.result = "DuplicateTicket"
                /\ r.ref \in OpenChannelsOf(t.guild, t.user)
      ]_vars

\* the channel of the oldest open row of (g, u)
OldestOpenChannel(g, u) ==
    LET S == {r \in Rows : RowOf(r, g, u) /\ IsOpenRow(r)}
    IN  tickets[CHOOSE r \in S : \A x \in S : r <= x].channel_id

\* what a press of Open Ticket must be told while the user has an open ticket
ExpectedAnswer(g, u) ==
    IF ~(BotHas(g, "manage_channels") /\ BotHas(g, "manage_roles"))
    THEN [result |-> "InsufficientPermissions", ref |-> None]
    ELSE IF guild_config[g] = None
    THEN [result |-> "NotConfigured", ref |-> None]
    ELSE IF ~CategoryThere(g)
    THEN [result |-> "InvalidCategory", ref |-> None]
    ELSE [result |-> "DuplicateTicket",
          ref |-> IF ChannelExists(g, OldestOpenChannel(g, u))
                  THEN OldestOpenChannel(g, u) ELSE None]

(* C7 (amended): whenever an Open Ticket press is decided while the user has
   an open ticket in the guild, the press ends there and creates nothing.
   If the bot holds both capabilities and the configured category exists,
   the answer is DuplicateTicket naming the channel of the user's oldest
   open ticket, or no channel ('#apagado') when that channel was deleted;
   otherwise the answer is InsufficientPermissions, NotConfigured or
   InvalidCategory, in that order of precedence, and names no channel. *)
C7_SameReferenceWhenChecksPass ==
    [][\A t \in InFlight :
          (Leaves(t) /\ t.kind = "open_ticket" /\ t.pc = "deferred"
              /\ OpenRowOf(t.guild, t.user))
          => /\ \E r \in BagToSet(responses') :
                   /\ Answers(r)
                   /\ r.kind = "open_ticket" /\ r.user = t.user
                   /\ r.result = ExpectedAnswer(t.guild, t.user).result
                   /\ r.ref = ExpectedAnswer(t.guild, t.user).ref
             /\ BagCardinality(tasks') = BagCardinality(tasks) - 1
             /\ tickets' = tickets
             /\ guild_channels' = guild_channels
      ]_vars

\* a press was answered with the channel of the user's open ticket
C7_Witness ==
    \E r \in Answered :
        /\ r.kind = "open_ticket" /\ r.result = "DuplicateTicket"
        /\ r.ref # None
        /\ r.ref \in OpenChannelsOf(r.guild, r.user)

(* C8 (stated; the code violates it): the step of a close that commits the
   UPDATE flips exactly one row, the open row of (guild, channel), from 1 to
   0 and changes no other row; and when a close is answered Closed the
   channel has no open row left and carries a transcript of at least one
   line. *)
C8_FlipsExactlyOneRow ==
    [][/\ \A t \in InFlight :
             (Leaves(t) /\ t.pc = "history"
                 /\ \E t2 \in BagToSet(tasks') : Enters(t2) /\ t2.pc = "send_file")
             => /\ DOMAIN tickets' = DOMAIN tickets
                /\ \E r \in Rows :
                      /\ RowOn(r, t.guild, t.ch)
                      /\ tickets[r].open = 1
                      /\ tickets' = [tickets EXCEPT ![r].open = 0]
       /\ \A r \in BagToSet(responses') :
             (Answers(r) /\ r.result = "Closed")
             => /\ \A row \in DOMAIN tickets' :
                      (tickets'[row].guild_id = r.guild
                          /\ tickets'[row].channel_id = r.ch)
                      => tickets'[row].open = 0
                /\ \E k \in DOMAIN history'[r.ch] :
                      Len(history'[r.ch][k].file) >= 1
      ]_vars

\* (g, u) has only closed rows
OnlyClosedRows(g, u) ==
    /\ \E r \in Rows : RowOf(r, g, u)
    /\ ~OpenRowOf(g, u)

(* C9: closed tickets do not block reopening.  An open attempt decided while
   the user has only closed rows in the guild, the bot capable and the
   category configured and present, goes on to create_text_channel; when
   that call is accepted, one row with open = 1 is appended for the user
   with a channel id no row had before, and every earlier row, the closed
   ones included, is left as it was. *)
C9_ClosedDoesNotBlock ==
    [][\A t \in InFlight :
          /\ (Leaves(t) /\ t.kind = "open_ticket" /\ t.pc = "deferred"
                 /\ BotHas(t.guild, "manage_channels")
                 /\ BotHas(t.guild, "manage_roles")
                 /\ CategoryThere(t.guild) /\ OnlyClosedRows(t.guild, t.user))
             => (\E t2 \in BagToSet(tasks') :
                    /\ Enters(t2)
                    /\ t2.pc = "create_text_channel" /\ t2.user = t.user
                    /\ t2.guild = t.guild)
                /\ responses' = responses
          /\ (Leaves(t) /\ t.pc = "create_text_channel"
                 /\ BotHas(t.guild, "manage_channels")
                 /\ BotHas(t.guild, "manage_roles")
                 /\ [id |-> t.category, guild |-> t.guild, type |-> "category"]
                        \in guild_channels)
             => /\ Len(tickets') = Len(tickets) + 1
                /\ \A r \in Rows : tickets'[r] = tickets[r]
                /\ tickets'[Len(tickets')].guild_id = t.guild
                /\ tickets'[Len(tickets')].user_id = t.user
                /\ tickets'[Len(tickets')].open = 1
                /\ \A r \in Rows :
                      tickets[r].channel_id # tickets'[Len(tickets')].channel_id
                /\ \E c \in {tickets'[Len(tickets')].channel_id} :
                      /\ ~ChannelExists(t.guild, c)
                      /\ ChannelExists(t.guild, c)'
      ]_vars

\* a user's closed ticket and that user's later open ticket, side by side
C9_Witness ==
    \E r1, r2 \in Rows :
        /\ r1 < r2
        /\ tickets[r1].guild_id = tickets[r2].guild_id
        /\ tickets[r1].user_id = tickets[r2].user_id
        /\ tickets[r1].channel_id # tickets[r2].channel_id
        /\ ~IsOpenRow(r1)
        /\ IsOpenRow(r2)
        /\ Attached(tickets[r1].channel_id)

(* C10: round trip.  In the step in which open_ticket inserts its row (its
   recordOpened), the lookup ticket_close_logic makes for the new channel
   (its findOpenByChannel) finds, straight afterwards, a row whose user_id
   is the opener and whose open is 1. *)
C10_RoundTrip ==
    [][\A t \in InFlight :
          (Leaves(t) /\ t.pc = "create_text_channel"
              /\ \E t2 \in BagToSet(tasks') : Enters(t2) /\ t2.pc = "send")
          => \E c \in {next_id} :
                /\ (OpenRowsOfChannel(t.guild, c) # {})'
                /\ (tickets[fetchone(OpenRowsOfChannel(t.guild, c))].user_id)'
                       = t.user
                /\ (tickets[fetchone(OpenRowsOfChannel(t.guild, c))].open)' = 1
      ]_vars

\* a handler has just inserted its row and the lookup finds it
C10_Witness ==
    \E t \in InFlight :
        /\ t.pc = "send"
        /\ OpenRowsOfChannel(t.guild, t.ch) # {}
        /\ tickets[fetchone(OpenRowsOfChannel(t.guild, t.ch))].user_id = t.user

(* C11: lifecycle monotonicity.  In every step no row is deleted, every
   existing row keeps its guild_id, user_id, channel_id and created_at, and
   its open flag either stays or goes from 1 to 0: a closed row is never
   open again. *)
C11_LifecycleMonotone ==
    [][/\ Len(tickets') >= Len(tickets)
       /\ \A r \in Rows :
             /\ tickets'[r].guild_id = tickets[r].guild_id
             /\ tickets'[r].user_id = tickets[r].user_id
             /\ tickets'[r].channel_id = tickets[r].channel_id
             /\ tickets'[r].created_at = tickets[r].created_at
             /\ tickets'[r].open \in {0, 1}
             /\ tickets'[r].open <= tickets[r].open
      ]_vars

\* a row was closed and the table went on growing after it
C11_Witness ==
    \E r \in Rows :
        /\ ~IsOpenRow(r)
        /\ r < Len(tickets)
        /\ tickets[r].created_at < tickets[Len(tickets)].created_at

\* the welcome message, with its close control, was posted to channel ch
Welcomed(ch) ==
    \E k \in DOMAIN history[ch] : history[ch][k].content = WelcomeText
\* u owns the open ticket of (g, ch) or holds Manage Channels
Authorized(g, ch, u) ==
    \E r \in Rows :
        /\ RowOn(r, g, ch) /\ IsOpenRow(r)
        /\ (tickets[r].user_id = u \/ manage_channels(u))

(* C12: ticket state survives restarts.  A restart leaves every row of
   tickets and the configured category exactly as they were.  And in every
   state, so also after any number of restarts: an Open Ticket press decided
   while the user has an open row in the guild creates nothing (it ends
   there with a failure answer); a press of the panel's close button
   decided in a channel with an open row, by the row's owner or a holder of
   Manage Channels, goes on to the history fetch; and when that fetch
   returns, the rows of the channel are closed. *)
C12_SurvivesRestart ==
    [][/\ RestartStep => (tickets' = tickets /\ guild_config' = guild_config)
       /\ \A t \in InFlight :
             /\ (Leaves(t) /\ t.kind = "open_ticket" /\ t.pc = "deferred"
                    /\ OpenRowOf(t.guild, t.user))
                => /\ \E r \in BagToSet(responses') :
                         /\ Answers(r) /\ r.kind = "open_ticket"
                         /\ r.user = t.user /\ r.result # "Created"
                   /\ BagCardinality(tasks') = BagCardinality(tasks) - 1
                   /\ tickets' = tickets
                   /\ guild_channels' = guild_channels
             /\ (Leaves(t) /\ t.kind = "close_ticket" /\ t.pc = "deferred"
                    /\ Authorized(t.guild, t.ch, t.user))
                => \E t2 \in BagToSet(tasks') :
                      /\ Enters(t2) /\ t2.pc = "history"
                      /\ t2.ch = t.ch /\ t2.user = t.user
             /\ (Leaves(t) /\ t.pc = "history" /\ ChannelExists(t.guild, t.ch))
                => \A r \in DOMAIN tickets' :
                      (tickets'[r].guild_id = t.guild
                          /\ tickets'[r].channel_id = t.ch)
                      => tickets'[r].open = 0
      ]_vars

\* after a restart (the close control posted with the welcome message is
\* gone) the owner's press of the panel's close button has closed the ticket
C12_Witness ==
    \E t \in InFlight :
        /\ t.kind = "close_ticket" /\ t.pc = "send_file"
        /\ Welcomed(t.ch)
        /\ \A v \in inline_view : v.ch # t.ch
        /\ \E r \in Rows :
              /\ RowOn(r, t.guild, t.ch) /\ ~IsOpenRow(r)
              /\ tickets[r].user_id = t.user

\* the bot holds both capabilities that open_ticket asks for
BotCapable(g) == BotHas(g, "manage_channels") /\ BotHas(g, "manage_roles")
\* handler t ends in this step with the answer res, having created nothing
EndsWith(t, res) ==
    /\ \E r \in BagToSet(responses') :
          /\ Answers(r)
          /\ r.kind = t.kind /\ r.user = t.user /\ r.guild = t.guild
          /\ r.result = res
    /\ BagCardinality(tasks') = BagCardinality(tasks) - 1
    /\ tickets' = tickets
    /\ guild_channels' = guild_channels
    /\ next_id' = next_id
    /\ history' = history

(* C13: capability pre-check.  An open attempt whose checks run while the
   bot lacks Manage Channels or Manage Roles ends there with the answer
   InsufficientPermissions: it never reaches create_text_channel, and
   channels, rows and the id counter are the same after the step as
   before. *)
C13_CapabilityPreCheck ==
    [][\A t \in InFlight :
          (Leaves(t) /\ t.kind = "open_ticket" /\ t.pc = "deferred"
              /\ ~BotCapable(t.guild))
          => EndsWith(t, "InsufficientPermissions")
      ]_vars

\* a press was answered InsufficientPermissions in a configured guild whose
\* bot lacks just one of the two capabilities, and nothing was ever created
C13_Witness ==
    \E r \in Answered :
        /\ r.kind = "open_ticket" /\ r.result = "InsufficientPermissions"
        /\ Cardinality(me_perms[r.guild]) = 1
        /\ CategoryThere(r.guild)
        /\ tickets = <<>>
        /\ next_id = FirstId

(* C14 (as stated; refuted): an open attempt whose checks run while the guild
   has no ticket category configured, or the configured id resolves to no
   category, ends with NotConfigured or InvalidCategory and creates
   nothing. *)
C14_AlwaysNotConfigured ==
    [][\A t \in InFlight :
          (Leaves(t) /\ t.kind = "open_ticket" /\ t.pc = "deferred"
              /\ ~CategoryThere(t.guild))
          => \/ EndsWith(t, "NotConfigured")
             \/ EndsWith(t, "InvalidCategory")
      ]_vars

(* C14 (amended): an open attempt whose checks run while the guild has no
   ticket category configured, or the configured id resolves to no category,
   ends there and creates no channel and inserts no row.  Its answer is
   NotConfigured (nothing configured) or InvalidCategory (the configured id
   resolves to no category) when the bot holds both capabilities, and
   InsufficientPermissions when it does not: the capability check comes
   first. *)
C14_FailsWithoutCreating ==
    [][\A t \in InFlight :
          (Leaves(t) /\ t.kind = "open_ticket" /\ t.pc = "deferred"
              /\ ~CategoryThere(t.guild))
          => EndsWith(t, IF ~BotCapable(t.guild) THEN "InsufficientPermissions"
                         ELSE IF guild_config[t.guild] = None THEN "NotConfigured"
                         ELSE "InvalidCategory")
      ]_vars

\* one press was answered NotConfigured and one InvalidCategory, and no
\* ticket exists
C14_Witness ==
    \E r1, r2 \in Answered :
        /\ r1.kind = "open_ticket" /\ r1.result = "NotConfigured"
        /\ guild_config[r1.guild] = None
        /\ r2.kind = "open_ticket" /\ r2.result = "InvalidCategory"
        /\ guild_config[r2.guild] # None
        /\ tickets = <<>>
        /\ TextChannels = {LobbyOf(g) : g \in Guilds}

\* some row, open or closed, references channel ch of guild g
Referenced(g, ch) == \E r \in Rows : RowOn(r, g, ch)

(* C15 (stated; the code violates it): no half-open ticket.  When an open
   handler that created a channel ends, by its last answer or by an
   exception, the channel it created exists if and only if a row of tickets
   references that channel. *)
C15_NoHalfOpen ==
    [][\A r \in BagToSet(responses') :
          (CopiesIn(r, responses') > CopiesIn(r, responses)
              /\ r.kind = "open_ticket" /\ r.ch # None /\ r.result # "Lost")
          => (ChannelExists(r.guild, r.ch)' <=> Referenced(r.guild, r.ch)')
      ]_vars

(* C16 (stated; the code violates it): every open or close request that ends
   in failure has delivered a failure response to its invoker: no handler
   ends after its defer without having answered. *)
C16_FailuresAnswered ==
    \A r \in Answered : r.result # "NoResponse"

(* C17: the duplicate check is keyed on (guild, user) and on nothing else.
   An Open Ticket press decided with the bot capable and the category in
   place goes on to create_text_channel exactly when the presser has no open
   row in that guild, whatever open rows other users have there and
   whatever open rows the presser has in other guilds; and it ends with
   DuplicateTicket, creating nothing, exactly when the presser has one. *)
C17_KeyedOnGuildAndUser ==
    [][\A t \in InFlight :
          (Leaves(t) /\ t.kind = "open_ticket" /\ t.pc = "deferred"
              /\ BotCapable(t.guild) /\ CategoryThere(t.guild))
          => IF OpenRowOf(t.guild, t.user)
             THEN EndsWith(t, "DuplicateTicket")
             ELSE /\ \E t2 \in BagToSet(tasks') :
                        /\ Enters(t2) /\ t2.pc = "create_text_channel"
                        /\ t2.user = t.user /\ t2.guild = t.guild
                  /\ responses' = responses
      ]_vars

\* user A's open ticket in guild G stands beside an open ticket of another
\* user in G and an open ticket of A in another guild
C17_Witness ==
    \E a, b, c \in Rows :
        /\ IsOpenRow(a) /\ IsOpenRow(b) /\ IsOpenRow(c)
        /\ a < b /\ a < c
        /\ tickets[b].guild_id = tickets[a].guild_id
        /\ tickets[b].user_id # tickets[a].user_id
        /\ tickets[c].guild_id # tickets[a].guild_id
        /\ tickets[c].user_id = tickets[a].user_id

(* C18 (stated; the code violates it): a close request on an open ticket made
   by the ticket's owner or by a holder of Manage Channels is never refused,
   whichever entry point it comes through: the inline control, the panel's
   button or /ticketclose. *)
C18_AnyEntryPointCloses ==
    [][\A r \in BagToSet(responses') :
          (Answers(r) /\ r.kind \in CloseKinds
              /\ Authorized(r.guild, r.ch, r.user))
          => r.result # "Forbidden"
      ]_vars

\* the lines of a text: its pieces between line feeds
RECURSIVE LinesOf(_)
LinesOf(text) ==
    IF \A k \in DOMAIN text : text[k] # LF THEN <<text>>
    ELSE LET k == CHOOSE i \in DOMAIN text :
                      text[i] = LF /\ \A j \in 1..(i - 1) : text[j] # LF
         IN  <<SubSeq(text, 1, k - 1)>> \o LinesOf(SubSeq(text, k + 1, Len(text)))
\* a message's content with every line feed turned into a space
Flat(content) ==
    [k \in DOMAIN content |-> IF content[k] = "\n" THEN " " ELSE content[k]]
\* the line ends with "author: " and the flattened content of message m
Carries(line, m) ==
    \E k \in 0..Len(line) :
        SubSeq(line, k + 1, Len(line))
            = <<ToString(m.author), ":", " ">> \o Flat(m.content)
\* text is a complete transcript of the messages msgs
CompleteFor(text, msgs) ==
    /\ text # <<>>
    /\ IF Len(msgs) = 0
       THEN /\ Len(LinesOf(text)) = 1
            /\ text = <<"S", "e", "m", " ", "m", "e", "n", "s", "a", "g", "e",
                        "n", "s", ".">>
       ELSE /\ Len(LinesOf(text)) = Len(msgs)
            /\ \A i \in DOMAIN msgs : Carries(LinesOf(text)[i], msgs[i])

(* C19: transcript completeness.  In the step in which a close handler has
   read the history of its channel, the transcript it has built is not
   empty and, for a history of N >= 1 messages, has exactly N lines, line i
   ending with the author and the newline-flattened content of message i;
   for N = 0 it is the one placeholder line. *)
C19_TranscriptComplete ==
    [][\A t \in InFlight :
          (Leaves(t) /\ t.pc = "history")
          => \A t2 \in BagToSet(tasks') :
                (Enters(t2) /\ t2.pc = "send_file")
                => CompleteFor(t2.buf, history[t.ch])
      ]_vars

\* a transcript of two lines was built from two messages, one of them with
\* a line feed in its content
C19_Witness ==
    \E t \in InFlight :
        /\ t.pc = "send_file"
        /\ Len(history[t.ch]) = 2
        /\ \E i \in DOMAIN history[t.ch] :
              \E k \in DOMAIN history[t.ch][i].content :
                  history[t.ch][i].content[k] = "\n"
        /\ Len(LinesOf(t.buf)) = 2

\* the identities an overwrite set lets see the channel and write to it
ReadWriteGranted(ows) ==
    {o.target : o \in {x \in ows : {"view_channel", "send_messages"} \subseteq x.allow}}
EveryoneRole(g) == [kind |-> "role", id |-> g]
Member(u) == [kind |-> "member", id |-> u]

(* C20: the channel's access list at provisioning.  In the step in which an
   open handler's channel is created, the overwrites set on the new channel
   deny view_channel to the guild's default role and allow viewing and
   sending to exactly two identities, the requester and the bot; nothing is
   allowed to anyone else, and no other channel's overwrites change.  The
   rest of the open handler changes no overwrites at all. *)
C20_ProvisionedAcl ==
    [][\A t \in InFlight :
          /\ (Leaves(t) /\ t.pc = "create_text_channel"
                 /\ ~ChannelExists(t.guild, next_id)
                 /\ \E c \in {next_id} : ChannelExists(t.guild, c)')
             => \E c \in {next_id} :
                   /\ \E o \in overwrites'[c] :
                         /\ o.target = EveryoneRole(t.guild)
                         /\ "view_channel" \in o.deny
                         /\ o.allow = {}
                   /\ ReadWriteGranted(overwrites'[c]) = {Member(t.user), Member(Me)}
                   /\ \A o \in overwrites'[c] :
                         o.target \in {EveryoneRole(t.guild), Member(t.user), Member(Me)}
                   /\ \A d \in ChannelIds \ {c} : overwrites'[d] = overwrites[d]
          /\ (Leaves(t) /\ t.kind = "open_ticket" /\ t.pc # "create_text_channel")
             => overwrites' = overwrites
      ]_vars

\* a ticket was opened for a member and its channel carries the three
\* overwrites, the member's among them
C20_Witness ==
    \E r \in Answered :
        /\ r.kind = "open_ticket" /\ r.result = "Created"
        /\ ChannelExists(r.guild, r.ch)
        /\ Cardinality(overwrites[r.ch]) = 3
        /\ Member(r.user) \in ReadWriteGranted(overwrites[r.ch])

\* the handlers of open and close requests, in flight and ended
Handlers == InFlight \cup {r \in Answered : r.result # "Lost"}
\* the calls that read or write the store, create a channel or fetch history
RegistryCalls ==
    {"get_cfg", "select", "insert", "update", "create_text_channel", "history"}
\* the positions of call c in log d
At(d, c) == {i \in DOMAIN d : d[i] = c}
\* the answers after which a handler has run to completion
FinalAnswers ==
    {"Created", "Closed", "InsufficientPermissions", "NotConfigured",
     "InvalidCategory", "DuplicateTicket", "NotATicket", "Forbidden"}

(* C21: defer/ack ordering.  In every open or close handler, in flight or
   ended, every store read or write, channel creation and history fetch the
   handler has made comes after its defer; and a handler that deferred and
   ran to completion has sent exactly one followup, as its last call. *)
C21_AckFirst ==
    \A x \in Handlers :
        /\ \A i \in DOMAIN x.did :
              x.did[i] \in RegistryCalls
              => \E j \in 1..(i - 1) : x.did[j] = "defer"
        /\ Cardinality(At(x.did, "defer")) <= 1
        /\ (x \in Answered /\ x.result \in FinalAnswers /\ At(x.did, "defer") # {})
           => /\ At(x.did, "followup") = {Len(x.did)}
              /\ At(x.did, "send_message") = {}

\* an open handler and a close handler of one channel both ran to completion
\* through the store
C21_Witness ==
    \E r1, r2 \in Answered :
        /\ r1.kind = "open_ticket" /\ r1.result = "Created"
        /\ r2.kind \in CloseKinds /\ r2.result = "Closed"
        /\ r1.ch = r2.ch
        /\ At(r1.did, "insert") # {} /\ At(r2.did, "update") # {}

\* this step is taken by a close request on channel ch of guild g: its entry
\* point, or a stretch of its handler
CloseStepOn(g, ch) ==
    \/ \E t \in InFlight :
          Leaves(t) /\ t.kind \in CloseKinds /\ t.guild = g /\ t.ch = ch
    \/ \E t \in BagToSet(tasks') :
          Enters(t) /\ t.kind \in CloseKinds /\ t.guild = g /\ t.ch = ch
    \/ \E r \in BagToSet(responses') :
          Answers(r) /\ r.kind \in CloseKinds /\ r.guild = g /\ r.ch = ch

(* C22: the frame of a close.  A step of a close request on channel ch
   leaves every channel in existence and every permission overwrite as it
   was, inserts no row and changes no row but by setting open to 0 on rows
   of (guild, ch), and changes no channel's messages but by appending to ch
   one message of the bot that carries the transcript file; configuration,
   close controls and the id counter are untouched. *)
C22_CloseFrame ==
    [][\A g \in Guilds, ch \in ChannelIds :
          CloseStepOn(g, ch)
          => /\ guild_channels' = guild_channels
             /\ overwrites' = overwrites
             /\ guild_config' = guild_config
             /\ inline_view' = inline_view
             /\ next_id' = next_id
             /\ Len(tickets') = Len(tickets)
             /\ \A r \in Rows :
                   \/ tickets'[r] = tickets[r]
                   \/ /\ RowOn(r, g, ch)
                      /\ tickets'[r] = [tickets[r] EXCEPT !.open = 0]
             /\ \A c \in ChannelIds :
                   \/ history'[c] = history[c]
                   \/ /\ c = ch
                      /\ Len(history'[c]) = Len(history[c]) + 1
                      /\ SubSeq(history'[c], 1, Len(history[c])) = history[c]
                      /\ history'[c][Len(history'[c])].author = Me
                      /\ history'[c][Len(history'[c])].file # <<>>
      ]_vars

\* a ticket was closed: its channel is still there with the three overwrites
\* it was created with, and it carries the transcript
C22_Witness ==
    \E r \in Answered :
        /\ r.kind \in CloseKinds /\ r.result = "Closed"
        /\ ChannelExists(r.guild, r.ch)
        /\ Cardinality(overwrites[r.ch]) = 3
        /\ ~OpenRowOn(r.guild, r.ch)
        /\ Attached(r.ch)

\* the overwrites in ows that are not set on member m
OthersIn(ows, m) == {o \in ows : o.target # Member(m)}

(* C23: /ticketadd and /ticketremove are not gated by the registry.  Their
   entry step changes nothing and refuses only an invoker without Manage
   Server.  The step in which set_permissions returns leaves the tickets
   table, the channels and their messages as they were, has made no store
   call, leaves every other channel's overwrites and, on the current channel,
   every overwrite but the named member's as they were; and whenever the
   channel exists and the bot may manage permissions it succeeds, whatever
   rows reference the channel: after /ticketadd the member can view and
   send, after /ticketremove the member has no overwrite. *)
C23_MemberCommandsUngated ==
    [][/\ \A r \in BagToSet(responses') :
             (Answers(r) /\ r.kind \in MemberKinds /\ r.result = "Forbidden")
             => ~manage_guild(r.user)
       /\ (\E x \in BagToSet(tasks') \cup BagToSet(responses') :
              x.kind \in MemberKinds
              /\ (CopiesIn(x, tasks') > CopiesIn(x, tasks)
                     \/ CopiesIn(x, responses') > CopiesIn(x, responses))
              /\ \A t \in InFlight : ~Leaves(t))
          => /\ overwrites' = overwrites /\ tickets' = tickets
             /\ guild_channels' = guild_channels /\ history' = history
       /\ \A t \in InFlight :
             (Leaves(t) /\ t.kind \in MemberKinds)
             => /\ tickets' = tickets
                /\ guild_channels' = guild_channels
                /\ history' = history
                /\ guild_config' = guild_config
                /\ \A c \in ChannelIds \ {t.ch} : overwrites'[c] = overwrites[c]
                /\ OthersIn(overwrites'[t.ch], t.member)
                       = OthersIn(overwrites[t.ch], t.member)
                /\ \E r \in BagToSet(responses') :
                      /\ Answers(r) /\ r.kind = t.kind /\ r.ch = t.ch
                      /\ \A i \in DOMAIN r.did : r.did[i] \notin RegistryCalls
                      /\ (ChannelExists(t.guild, t.ch) /\ BotHas(t.guild, "manage_roles"))
                         => /\ r.result = "Done"
                            /\ IF t.kind = "ticketadd"
                               THEN Member(t.member) \in ReadWriteGranted(overwrites'[t.ch])
                               ELSE \A o \in overwrites'[t.ch] :
                                       o.target # Member(t.member)
      ]_vars

\* a member was added to the channel of a closed ticket: the channel now
\* carries a fourth overwrite
C23_Witness ==
    \E r \in Answered :
        /\ r.kind = "ticketadd" /\ r.result = "Done"
        /\ Referenced(r.guild, r.ch) /\ ~OpenRowOn(r.guild, r.ch)
        /\ Cardinality(overwrites[r.ch]) = 4

\* the first position of call c in log d, or 0
First(d, c) == IF At(d, c) = {} THEN 0 ELSE CHOOSE i \in At(d, c) : \A j \in At(d, c) : i <= j

(* C24: insert only after provisioning.  A step that adds a row adds exactly
   one, is the stretch of an open handler in which create_text_channel has
   returned, and the row carries the id of the channel that came into
   existence in that step, with the handler's guild and user; a
   create_text_channel that fails adds no row and no channel.  A close
   control is posted only for a channel whose row is already recorded.  In
   every handler's list of completed calls the insert follows
   create_text_channel and the welcome send follows the insert. *)
C24_InsertAfterProvisioning ==
    [][/\ Len(tickets') # Len(tickets)
          => /\ Len(tickets') = Len(tickets) + 1
             /\ \E t \in InFlight :
                   /\ Leaves(t) /\ t.kind = "open_ticket"
                   /\ t.pc = "create_text_channel"
                   /\ tickets'[Len(tickets')].guild_id = t.guild
                   /\ tickets'[Len(tickets')].user_id = t.user
                   /\ \E c \in {tickets'[Len(tickets')].channel_id} :
                         /\ ~ChannelExists(t.guild, c)
                         /\ ChannelExists(t.guild, c)'
                         /\ guild_channels' = guild_channels \cup
                                {[id |-> c, guild |-> t.guild, type |-> "text"]}
       /\ \A t \in InFlight :
             (Leaves(t) /\ t.pc = "create_text_channel"
                 /\ ~\E t2 \in BagToSet(tasks') : Enters(t2) /\ t2.pc = "send")
             => (tickets' = tickets /\ guild_channels' = guild_channels)
       /\ \A v \in inline_view' \ inline_view :
             \E r \in Rows :
                 RowOn(r, GuildOf(v.ch), v.ch) /\ tickets[r].user_id = v.author
       /\ \A x \in Handlers :
             /\ At(x.did, "insert") # {}
                => (First(x.did, "create_text_channel") # 0
                    /\ First(x.did, "create_text_channel") < First(x.did, "insert"))
             /\ (x.kind = "open_ticket" /\ At(x.did, "channel.send") # {})
                => (First(x.did, "insert") # 0
                    /\ First(x.did, "insert") < First(x.did, "channel.send"))
      ]_vars

\* a handler's provisioning failed and left neither channel nor row, while
\* another ticket was opened and got its close control
C24_Witness ==
    /\ \E r \in Answered :
          /\ r.kind = "open_ticket" /\ r.result = "NoResponse" /\ r.ch = None
          /\ ~OpenRowOf(r.guild, r.user)
    /\ \E v \in inline_view :
          \E r \in Rows : RowOn(r, GuildOf(v.ch), v.ch) /\ tickets[r].user_id = v.author

\* row r is open and its channel no longer exists
Dangling(r) ==
    IsOpenRow(r) /\ ~ChannelExists(tickets[r].guild_id, tickets[r].channel_id)
\* (g, u) owns an open row whose channel no longer exists
LockedOut(g, u) == \E r \in Rows : RowOf(r, g, u) /\ Dangling(r)

(* C25 (as stated; refuted): a row that is open while its channel is gone is
   left as it is by every step, and whenever an Open Ticket press of its
   owner in that guild is decided, the press is answered DuplicateTicket and
   creates nothing. *)
C25_AlwaysDuplicate ==
    [][/\ \A r \in Rows :
             Dangling(r) => (r \in DOMAIN tickets' /\ tickets'[r] = tickets[r])
       /\ \A t \in InFlight :
             (Leaves(t) /\ t.kind = "open_ticket" /\ t.pc = "deferred"
                 /\ LockedOut(t.guild, t.user))
             => EndsWith(t, "DuplicateTicket")
      ]_vars

(* C25 (amended): dangling reference lock-out.  A row that is open while its
   channel is gone is left as it is by every step and its channel never
   comes back, so it stays open for good; and whenever an Open Ticket press
   of its owner in that guild is decided, the press ends there, creating no
   channel and no row.  The answer is DuplicateTicket when the bot holds
   both capabilities and the configured category exists; otherwise it is
   InsufficientPermissions, NotConfigured or InvalidCategory, in that order
   of precedence. *)
C25_DanglingLockOut ==
    [][/\ \A r \in Rows :
             Dangling(r)
             => /\ r \in DOMAIN tickets' /\ tickets'[r] = tickets[r]
                /\ ~(ChannelExists(tickets[r].guild_id, tickets[r].channel_id))'
       /\ \A t \in InFlight :
             (Leaves(t) /\ t.kind = "open_ticket" /\ t.pc = "deferred"
                 /\ LockedOut(t.guild, t.user))
             => EndsWith(t, ExpectedAnswer(t.guild, t.user).result)
       /\ \A t \in BagToSet(tasks') :
             (Enters(t) /\ t.kind = "open_ticket" /\ t.pc = "create_text_channel")
             => ~LockedOut(t.guild, t.user)
      ]_vars

\* the deletion of an open ticket's channel, as the bot reaches it
C25_Reached == AfterDeletion(1)

\* the owner of a row whose channel was deleted pressed Open Ticket again and
\* was told of a ticket that names no channel
C25_Witness ==
    \E r \in Answered :
        /\ r.kind = "open_ticket" /\ r.result = "DuplicateTicket" /\ r.ref = None
        /\ LockedOut(r.guild, r.user)
        /\ Cardinality({row \in Rows : RowOf(row, r.guild, r.user)}) = 1

\* the rows that the WHERE clause of the close UPDATE matches for (g, ch)
Matched(g, ch) == {r \in Rows : RowOn(r, g, ch)}

(* C26: channel reference uniqueness.  No two rows share the pair
   (guild_id, channel_id), so the WHERE clause of the close UPDATE matches at
   most one row for any channel, and no step changes more than one row. *)
C26_ChannelReferenceUnique ==
    [][/\ \A r1, r2 \in DOMAIN tickets' :
             (tickets'[r1].guild_id = tickets'[r2].guild_id
                 /\ tickets'[r1].channel_id = tickets'[r2].channel_id)
             => r1 = r2
       /\ \A g \in Guilds, ch \in ChannelIds : Cardinality(Matched(g, ch)) <= 1
       /\ Cardinality({r \in Rows : r \in DOMAIN tickets'
                                    /\ tickets'[r] # tickets[r]}) <= 1
      ]_vars

\* two tickets of one guild on two channels; the close of one has left the
\* other open
C26_Witness ==
    \E r1, r2 \in Rows :
        /\ tickets[r1].guild_id = tickets[r2].guild_id
        /\ tickets[r1].channel_id # tickets[r2].channel_id
        /\ ~IsOpenRow(r1) /\ IsOpenRow(r2)

(* The economy table, read directly. *)
HasRow(g, u) == <<g, u>> \in DOMAIN economy
Bal(g, u) == IF HasRow(g, u) THEN economy[<<g, u>>].balance ELSE 0
\* the stored inventory text; a member without a row has the empty inventory
InvText(g, u) == IF HasRow(g, u) THEN economy[<<g, u>>].inv_json ELSE <<"{", "}">>
\* the stored last-daily stamp; <<>> when there is none
Stamp(g, u) == IF HasRow(g, u) THEN economy[<<g, u>>].last_daily ELSE <<>>
\* the calendar date of a clock reading
DayOf(ts) == ts \div TicksPerDay
RECURSIVE SumOver(_, _)
SumOver(S, g) ==
    IF S = {} THEN 0
    ELSE LET u == CHOOSE x \in S : TRUE IN Bal(g, u) + SumOver(S \ {u}, g)
\* the sum of all balances of guild g
Total(g) == SumOver(Users, g)
\* an economy command is answered in this step
Answered_(cmd) == reply'.n = reply.n + 1 /\ reply'.cmd = cmd
\* the price of what the invoker typed, or 0 when the shop has no such item
Price(item) ==
    IF item \in {"crate", "Crate"} THEN 400
    ELSE IF item = "vip" THEN 1500
    ELSE IF item = "nickcolor" THEN 800
    ELSE 0

(* C27: no stored balance is ever negative, under any interleaving of daily,
   pay and buy; a pay whose amount exceeds the payer's balance and a buy whose
   price exceeds the buyer's balance are rejected and leave the whole table,
   balances and inventories, as it was. *)
C27_NoNegativeBalance ==
    [][/\ \A k \in DOMAIN economy' : economy'[k].balance >= 0
       /\ \A k \in DOMAIN economy : economy[k].balance >= 0
       /\ (Answered_("pay") /\ reply'.amount > Bal(reply'.guild, reply'.user))
          => /\ reply'.result \in {"Insufficient", "SelfPay"}
             /\ reply'.result = "SelfPay" <=> reply'.member = reply'.user
             /\ economy' = economy
       /\ (Answered_("buy") /\ Price(reply'.item) > Bal(reply'.guild, reply'.user))
          => /\ reply'.result = "Insufficient"
             /\ economy' = economy
      ]_vars

\* after a daily and a pay of 100, a buy was rejected for a balance of 150
C27_Witness ==
    /\ reply.cmd = "buy" /\ reply.result = "Insufficient"
    /\ Bal(reply.guild, reply.user) = 150
    /\ \E m \in Users : Bal(reply.guild, m) = 100

(* C28: pay conserves currency.  A successful pay of amount n takes exactly n
   from the sender and gives exactly n to the receiver; the sum of the
   balances of the guild, every other row, and both members' inventories
   and last-daily stamps are the same after it as before.  A pay to oneself
   is rejected and changes nothing. *)
C28_PayConserves ==
    [][/\ (Answered_("pay") /\ reply'.result = "Paid")
          => \E g \in {reply'.guild}, u \in {reply'.user}, m \in {reply'.member},
                n \in {reply'.amount} :
                /\ n >= 1 /\ m # u
                /\ (Bal(g, u))' = Bal(g, u) - n
                /\ (Bal(g, m))' = Bal(g, m) + n
                /\ (Total(g))' = Total(g)
                /\ (InvText(g, u))' = InvText(g, u)
                /\ (InvText(g, m))' = InvText(g, m)
                /\ (Stamp(g, u))' = Stamp(g, u)
                /\ (Stamp(g, m))' = Stamp(g, m)
                /\ \A k \in DOMAIN economy :
                      k \notin {<<g, u>>, <<g, m>>} => economy'[k] = economy[k]
                /\ DOMAIN economy' = DOMAIN economy \cup {<<g, m>>}
       /\ (Answered_("pay") /\ reply'.member = reply'.user)
          => /\ reply'.result = IF reply'.amount >= 1 THEN "SelfPay" ELSE "Error"
             /\ economy' = economy
      ]_vars

\* a member who had collected twice and bought a crate paid their last 100 to
\* a member who had no row yet
C28_Witness ==
    /\ reply.cmd = "pay" /\ reply.result = "Paid"
    /\ Stamp(reply.guild, reply.user) # <<>>
    /\ InvText(reply.guild, reply.user) = <<"{", "crate", ":", "1", "}">>
    /\ Bal(reply.guild, reply.user) = 0
    /\ Bal(reply.guild, reply.member) = 100
    /\ Stamp(reply.guild, reply.member) = <<>>

\* the credits given to (g, u)
CreditsOf(g, u) == {c \in BagToSet(credited) : c.guild = g /\ c.user = u}

(* C29: the daily reward is credited at most once per UTC calendar date for
   each (guild, user): no two credits of one member fall on one date, by the
   date read for the comparison or by the date stamped; a credit adds
   DAILY_AMOUNT and stamps the row; and a daily request made on the date of
   the stored stamp is rejected and leaves balance, inventory and stamp as
   they were. *)
C29_DailyOncePerDate ==
    [][/\ \A c \in BagToSet(credited') : CopiesIn(c, credited') = 1
       /\ \A c1, c2 \in BagToSet(credited') :
             (c1.guild = c2.guild /\ c1.user = c2.user /\ c1 # c2)
             => /\ DayOf(c1.today) # DayOf(c2.today)
                /\ DayOf(c1.stamp) # DayOf(c2.stamp)
                /\ DayOf(c1.today) # DayOf(c2.stamp)
       /\ Answered_("daily")
          => \E g \in {reply'.guild}, u \in {reply'.user} :
                IF Stamp(g, u) # <<>> /\ Stamp(g, u)[1] = DayOf(utcnow)
                THEN /\ reply'.result = "AlreadyCollected"
                     /\ economy' = economy
                     /\ credited' = credited
                ELSE /\ reply'.result = "Collected"
                     /\ (Bal(g, u))' = Bal(g, u) + 250
                     /\ (InvText(g, u))' = InvText(g, u)
                     /\ (Stamp(g, u))'[1] = DayOf(utcnow')
                     /\ BagCardinality(credited') = BagCardinality(credited) + 1
       /\ ~Answered_("daily") => credited' = credited
      ]_vars

\* a member collected on two dates and was turned away the second time they
\* asked on the later date
C29_Witness ==
    /\ reply.cmd = "daily" /\ reply.result = "AlreadyCollected"
    /\ Cardinality(CreditsOf(reply.guild, reply.user)) = 2
    /\ Bal(reply.guild, reply.user) = 500

====
